---- MODULE Spec2Model ----
(***************************************************************************)
(* A model of the block store of src/world/mod.rs: World, Chunk, Section   *)
(* and Snapshot, together with the consumer that builds dirty Sections.    *)
(*                                                                         *)
(* Sizes are the program's own: a Section has 16*16*16 = 4096 cells, a     *)
(* Chunk 16 Section slots, the Air palette entry starts at 0xFFFFFFFF.     *)
(* To keep 4096-cell arrays small in a state, a packed array is held as    *)
(* the set of positions of its one bits and a nibble array as the bytes    *)
(* that differ from a fill byte; every cell is still addressable.          *)
(***************************************************************************)
EXTENDS Integers, Sequences, FiniteSets, TLC

(***************************************************************************)
(* Bounds of the model                                                     *)
(***************************************************************************)
\* number of registered domain blocks of the block registry
NumBlocks == 300
\* calls in one behaviour of Spec
MaxOps == 3
\* calls in one behaviour of SpecFlags
MaxFlagOps == 4
\* calls in one behaviour of SpecConsumer
MaxBuildOps == 5
\* calls in one behaviour of SpecSection
MaxSecOps == 3

\* calls in one behaviour of SpecLoad
MaxLoadOps == 3

\* writes in one behaviour of SpecFill
MaxFillOps == 17

\* calls in one behaviour of SpecEdit
MaxEditOps == 3

\* calls in one behaviour of SpecTrunc
MaxTruncOps == 2

(***************************************************************************)
(* u32 arithmetic.  TLC integers are 32 bit signed, so a u32 is held as    *)
(* <<high 16 bits, low 16 bits>>.                                          *)
(***************************************************************************)
Limb == 2 ^ 16

\* 0xFFFFFFFF
U32Max == <<Limb - 1, Limb - 1>>

U32Zero == <<0, 0>>

U32One == <<0, 1>>

\* info.1 += 1 (wrapping)
U32Inc(c) ==
  IF c[2] < Limb - 1 THEN <<c[1], c[2] + 1>> ELSE <<(c[1] + 1) % Limb, 0>>

\* info.1 -= 1 (wrapping)
U32Dec(c) ==
  IF c[2] > 0 THEN <<c[1], c[2] - 1>> ELSE <<(c[1] - 1) % Limb, Limb - 1>>

\* exact sum of two counts; the high part is not reduced
U32Add(a, b) ==
  <<a[1] + b[1] + ((a[2] + b[2]) \div Limb), (a[2] + b[2]) % Limb>>

(***************************************************************************)
(* block::Block and its registry (module block is not part of the unit).   *)
(* A block value is a natural number: Air, Missing, then the domain blocks *)
(* 2 .. NumBlocks + 1.                                                     *)
(***************************************************************************)
Air == 0

Missing == 1

Block == 0 .. (NumBlocks + 1)

\* the global (wire) id of a block: block id << 4 | metadata 0
VanillaId(b) == IF b = Air THEN 0 ELSE (b - 1) * 16

\* block::Block::by_vanilla_id: unknown ids resolve to Missing
ByVanillaId(id) ==
  IF id = 0 THEN Air
  ELSE IF id % 16 = 0 /\ (id \div 16) \in 1 .. NumBlocks THEN (id \div 16) + 1
  ELSE Missing

\* Block::get_steven_id: Air first, the domain blocks, Missing last
GetStevenId(b) ==
  IF b = Air THEN 0 ELSE IF b = Missing THEN NumBlocks + 1 ELSE b - 1

\* block::Block::by_steven_id
ByStevenId(id) ==
  IF id = 0 THEN Air
  ELSE IF id \in 1 .. NumBlocks THEN id + 1
  ELSE Missing

(***************************************************************************)
(* types::bit::Map: fixed-width unsigned integers packed contiguously,     *)
(* least significant bit first, into a stream of 64 bit words.  `bits' is  *)
(* the set of positions (in the stream) of the bits that are 1; bit p is   *)
(* bit p % 64 of word p \div 64.                                           *)
(***************************************************************************)
\* bit k of the natural number v
BitOf(v, k) == (v \div (2 ^ k)) % 2

\* the bit positions of element i
BitRange(m, i) == { i * m.bit_size + k : k \in 0 .. (m.bit_size - 1) }

\* bit::Map::new(len, size)
BitMapNew(len, size) == [bit_size |-> size, length |-> len, bits |-> {}]

\* bit::Map::from_raw(bits, size): `raw' is [words, bits]
BitMapFromRaw(raw, size) ==
  [bit_size |-> size, length |-> (raw.words * 64) \div size, bits |-> raw.bits]

RECURSIVE BitGetFrom(_, _, _)
BitGetFrom(m, base, k) ==
  IF k = m.bit_size THEN 0
  ELSE (IF (base + k) \in m.bits THEN 2 ^ k ELSE 0) + BitGetFrom(m, base, k + 1)

\* bit::Map::get(i)
BitGet(m, i) == BitGetFrom(m, i * m.bit_size, 0)

\* bit::Map::set(i, val): only the low bit_size bits of val fit the element
BitSet(m, i, val) ==
  [m EXCEPT !.bits = (@ \ BitRange(m, i)) \cup
      { i * m.bit_size + k : k \in { j \in 0 .. (m.bit_size - 1) : BitOf(val, j) = 1 } }]

\* the elements that are not 0
BitNonZero(m) == { p \div m.bit_size : p \in m.bits }

\* bit::Map::resize(size): a new array, every element's decoded value copied
BitResize(m, size) ==
  [bit_size |-> size, length |-> m.length,
   bits |-> UNION { { i * size + k : k \in { j \in 0 .. (size - 1) : BitOf(BitGet(m, i), j) = 1 } }
                    : i \in BitNonZero(m) }]

(***************************************************************************)
(* types::nibble::Array: 4 bit values, two to a byte, the even index in    *)
(* the low half.  `data' lists the bytes that differ from `fill'.          *)
(***************************************************************************)
\* nibble::Array::new(size): all zero
NibbleNew(size) == [size |-> size, fill |-> 0, data |-> <<>>]

\* byte k of the array
NibbleByte(a, k) == IF k \in DOMAIN a.data THEN a.data[k] ELSE a.fill

\* nibble::Array::get(idx)
NibbleGet(a, idx) == (NibbleByte(a, idx \div 2) \div (16 ^ (idx % 2))) % 16

\* the array with byte k replaced
NibblePutByte(a, k, byte) ==
  IF byte = a.fill
  THEN [a EXCEPT !.data = [j \in (DOMAIN a.data) \ {k} |-> a.data[j]]]
  ELSE [a EXCEPT !.data = [j \in (DOMAIN a.data) \cup {k} |-> IF j = k THEN byte ELSE a.data[j]]]

\* nibble::Array::set(idx, val)
NibbleSet(a, idx, val) ==
  LET old == NibbleByte(a, idx \div 2)
      lo == IF idx % 2 = 0 THEN val % 16 ELSE old % 16
      hi == IF idx % 2 = 0 THEN old \div 16 ELSE val % 16
  IN NibblePutByte(a, idx \div 2, hi * 16 + lo)

\* an array of `size' nibbles after set(i, val) for every i in 0 .. size
NibbleFilled(size, val) == [size |-> size, fill |-> val * 16 + val, data |-> <<>>]

(***************************************************************************)
(* std::collections::HashMap as a function on the set of its keys          *)
(***************************************************************************)
\* HashMap::insert(k, v)
MapPut(f, k, v) == [j \in (DOMAIN f) \cup {k} |-> IF j = k THEN v ELSE f[j]]

\* HashMap::remove(k)
MapRemove(f, k) == [j \in (DOMAIN f) \ {k} |-> f[j]]

(***************************************************************************)
(* Section                                                                 *)
(***************************************************************************)
\* cells of a Section: 16 * 16 * 16
SectionCells == 4096

\* ((y << 8) | (z << 4) | x) for local coordinates in 0 .. 15
CellIndex(x, y, z) == (y * 256) + (z * 16) + x

\* Section::new(x, y, z); block_map entries are <<block, reference count>>
SectionNew(x, y, z) ==
  [key |-> <<x, y, z>>,
   y |-> y,
   blocks |-> BitMapNew(SectionCells, 4),
   block_map |-> << <<Air, U32Max>> >>,
   rev_block_map |-> MapPut(<<>>, Air, 0),
   block_light |-> NibbleNew(SectionCells),
   sky_light |-> NibbleFilled(SectionCells, 15),
   dirty |-> FALSE,
   building |-> FALSE]

\* Section::get_block(x, y, z)
SectionGetBlock(s, x, y, z) ==
  LET idx == BitGet(s.blocks, CellIndex(x, y, z)) IN s.block_map[idx + 1][1]

\* CleanUpOld without the decrement of line 444
CleanUpOld_NoDecrement(s, old) == s

\* Section::set_block, "Clean up old block": lines 441-448
CleanUpOld(s, old) ==
  LET idx == s.rev_block_map[old]
      count == U32Dec(s.block_map[idx + 1][2])
  IN [s EXCEPT !.block_map[idx + 1][2] = count,
               !.rev_block_map = IF count = U32Zero THEN MapRemove(@, old) ELSE @]

\* the palette slots with reference count 0 (0 based)
FreeSlots(s) == { i \in 0 .. (Len(s.block_map) - 1) : s.block_map[i + 1][2] = U32Zero }

\* AllocSlot without the lookup of line 450: b always gets a slot of its own
AllocSlot_NoLookup(s, b) ==
  IF FreeSlots(s) # {}
  THEN LET i == CHOOSE j \in FreeSlots(s) : \A k \in FreeSlots(s) : j <= k
       IN [s EXCEPT !.block_map[i + 1][1] = b,
                    !.rev_block_map = MapPut(@, b, i)]
  ELSE [s EXCEPT !.rev_block_map = MapPut(@, b, Len(s.block_map)),
                 !.block_map = Append(@, <<b, U32Zero>>)]

\* AllocSlot without the resize of lines 461-464
AllocSlot_NeverResizes(s, b) ==
  IF b \in DOMAIN s.rev_block_map THEN s
  ELSE IF FreeSlots(s) # {}
  THEN LET i == CHOOSE j \in FreeSlots(s) : \A k \in FreeSlots(s) : j <= k
       IN [s EXCEPT !.block_map[i + 1][1] = b,
                    !.rev_block_map = MapPut(@, b, i)]
  ELSE [s EXCEPT !.rev_block_map = MapPut(@, b, Len(s.block_map)),
                 !.block_map = Append(@, <<b, U32Zero>>)]

\* AllocSlot with > for >= in line 461: the array is widened one slot late
AllocSlot_LateResize(s, b) ==
  IF b \in DOMAIN s.rev_block_map THEN s
  ELSE IF FreeSlots(s) # {}
  THEN LET i == CHOOSE j \in FreeSlots(s) : \A k \in FreeSlots(s) : j <= k
       IN [s EXCEPT !.block_map[i + 1][1] = b,
                    !.rev_block_map = MapPut(@, b, i)]
  ELSE LET grown == IF Len(s.block_map) > 2 ^ s.blocks.bit_size
                    THEN [s EXCEPT !.blocks = BitResize(@, s.blocks.bit_size * 2)]
                    ELSE s
       IN [grown EXCEPT !.rev_block_map = MapPut(@, b, Len(s.block_map)),
                        !.block_map = Append(@, <<b, U32Zero>>)]

\* AllocSlot with <= 1 for == 0 in line 453: a slot with one cell left is reused
AllocSlot_ReusesLive(s, b) ==
  IF b \in DOMAIN s.rev_block_map THEN s
  ELSE IF \E j \in 0 .. (Len(s.block_map) - 1) : s.block_map[j + 1][2] \in {U32Zero, U32One}
  THEN LET i == CHOOSE j \in 0 .. (Len(s.block_map) - 1) :
                  /\ s.block_map[j + 1][2] \in {U32Zero, U32One}
                  /\ \A k \in 0 .. (j - 1) : s.block_map[k + 1][2] \notin {U32Zero, U32One}
       IN [s EXCEPT !.block_map[i + 1][1] = b,
                    !.rev_block_map = MapPut(@, b, i)]
  ELSE LET grown == IF Len(s.block_map) >= 2 ^ s.blocks.bit_size
                    THEN [s EXCEPT !.blocks = BitResize(@, s.blocks.bit_size * 2)]
                    ELSE s
       IN [grown EXCEPT !.rev_block_map = MapPut(@, b, Len(s.block_map)),
                        !.block_map = Append(@, <<b, U32Zero>>)]

\* Section::set_block, the branch that gives b a palette slot: lines 450-469
AllocSlot(s, b) ==
  IF b \in DOMAIN s.rev_block_map THEN s
  ELSE IF FreeSlots(s) # {}
  THEN LET i == CHOOSE j \in FreeSlots(s) : \A k \in FreeSlots(s) : j <= k
       IN [s EXCEPT !.block_map[i + 1][1] = b,
                    !.rev_block_map = MapPut(@, b, i)]
  ELSE LET grown == IF Len(s.block_map) >= 2 ^ s.blocks.bit_size
                    THEN [s EXCEPT !.blocks = BitResize(@, s.blocks.bit_size * 2)]
                    ELSE s
       IN [grown EXCEPT !.rev_block_map = MapPut(@, b, Len(s.block_map)),
                        !.block_map = Append(@, <<b, U32Zero>>)]

\* WriteCell with y and z exchanged in the index of line 473
WriteCell_SwappedIndex(s, x, y, z, b) ==
  LET idx == s.rev_block_map[b]
  IN [s EXCEPT !.block_map[idx + 1][2] = U32Inc(@),
               !.blocks = BitSet(@, CellIndex(x, z, y), idx),
               !.dirty = TRUE]

\* Section::set_block, the write: lines 471-475
WriteCell(s, x, y, z, b) ==
  LET idx == s.rev_block_map[b]
  IN [s EXCEPT !.block_map[idx + 1][2] = U32Inc(@),
               !.blocks = BitSet(@, CellIndex(x, y, z), idx),
               !.dirty = TRUE]

\* SectionSetBlock without the early return of lines 437-439
SectionSetBlock_NoEarlyReturn(s, x, y, z, b) ==
  WriteCell(AllocSlot(CleanUpOld(s, SectionGetBlock(s, x, y, z)), b), x, y, z, b)

\* Section::set_block(x, y, z, b)
SectionSetBlock(s, x, y, z, b) ==
  LET old == SectionGetBlock(s, x, y, z)
  IN IF old = b THEN s
     ELSE WriteCell(AllocSlot(CleanUpOld(s, old), b), x, y, z, b)

\* Section::get_block_light(x, y, z)
SectionGetBlockLight(s, x, y, z) == NibbleGet(s.block_light, CellIndex(x, y, z))

\* Section::get_sky_light(x, y, z)
SectionGetSkyLight(s, x, y, z) == NibbleGet(s.sky_light, CellIndex(x, y, z))

(***************************************************************************)
(* Chunk: `sections' is the array [Option<Section>; 16], held as a         *)
(* function on the slots that are Some.  The biome layer is never read or  *)
(* written by the unit and is left out.                                    *)
(***************************************************************************)
\* the indices of chunk.sections
Slots == 0 .. 15

\* Chunk::new(pos)
ChunkNew(pos) == [position |-> pos, sections |-> <<>>]

\* ChunkSetBlock without the test for Air of lines 341-343
ChunkSetBlock_CreatesForAir(c, x, y, z, b) ==
  LET s_idx == y \div 16
  IN IF s_idx < 0 \/ s_idx > 15 THEN c
     ELSE LET section == IF s_idx \in DOMAIN c.sections
                         THEN c.sections[s_idx]
                         ELSE SectionNew(c.position[1], s_idx, c.position[2])
          IN [c EXCEPT !.sections = MapPut(@, s_idx, SectionSetBlock(section, x, y % 16, z, b))]

\* Chunk::set_block(x, y, z, b)
ChunkSetBlock(c, x, y, z, b) ==
  LET s_idx == y \div 16
  IN IF s_idx < 0 \/ s_idx > 15 THEN c
     ELSE IF s_idx \notin DOMAIN c.sections /\ b = Air THEN c
     ELSE LET section == IF s_idx \in DOMAIN c.sections
                         THEN c.sections[s_idx]
                         ELSE SectionNew(c.position[1], s_idx, c.position[2])
          IN [c EXCEPT !.sections = MapPut(@, s_idx, SectionSetBlock(section, x, y % 16, z, b))]

\* ChunkGetBlock that answers Missing for an absent Section
ChunkGetBlock_AbsentIsMissing(c, x, y, z) ==
  LET s_idx == y \div 16
  IN IF s_idx < 0 \/ s_idx > 15 THEN Missing
     ELSE IF s_idx \in DOMAIN c.sections
     THEN SectionGetBlock(c.sections[s_idx], x, y % 16, z)
     ELSE Missing

\* Chunk::get_block(x, y, z)
ChunkGetBlock(c, x, y, z) ==
  LET s_idx == y \div 16
  IN IF s_idx < 0 \/ s_idx > 15 THEN Missing
     ELSE IF s_idx \in DOMAIN c.sections
     THEN SectionGetBlock(c.sections[s_idx], x, y % 16, z)
     ELSE Air

(***************************************************************************)
(* World: `ch' is the HashMap chunks, a function on the loaded positions   *)
(* <<x, z>>.  x >> 4 is x \div 16 and x & 0xF is x % 16, for negative x    *)
(* too.                                                                    *)
(***************************************************************************)
\* World::is_chunk_loaded(x, z)
IsChunkLoaded(ch, x, z) == <<x, z>> \in DOMAIN ch

\* World::set_block(x, y, z, b)
WorldSetBlock(ch, x, y, z, b) ==
  LET cpos == <<x \div 16, z \div 16>>
      ch1 == IF cpos \notin DOMAIN ch THEN MapPut(ch, cpos, ChunkNew(cpos)) ELSE ch
  IN [ch1 EXCEPT ![cpos] = ChunkSetBlock(@, x % 16, y, z % 16, b)]

\* World::get_block(x, y, z)
WorldGetBlock(ch, x, y, z) ==
  LET cpos == <<x \div 16, z \div 16>>
  IN IF cpos \in DOMAIN ch THEN ChunkGetBlock(ch[cpos], x % 16, y, z % 16) ELSE Missing

\* the elements of a finite set in some order (a HashMap's iteration order)
RECURSIVE IterOrder(_)
IterOrder(S) ==
  IF S = {} THEN <<>>
  ELSE LET e == CHOOSE e \in S : TRUE IN <<e>> \o IterOrder(S \ {e})

\* DirtyOfChunk without the test of `building' in line 60
RECURSIVE DirtyOfChunk_IgnoresBuilding(_, _)
DirtyOfChunk_IgnoresBuilding(c, i) ==
  IF i > 15 THEN <<>>
  ELSE (IF i \in DOMAIN c.sections /\ c.sections[i].dirty
        THEN << <<c.position[1], c.sections[i].y, c.position[2], c.sections[i].key>> >>
        ELSE <<>>) \o DirtyOfChunk_IgnoresBuilding(c, i + 1)

\* the entries get_dirty_chunk_sections pushes for one chunk, slots i .. 15
RECURSIVE DirtyOfChunk(_, _)
DirtyOfChunk(c, i) ==
  IF i > 15 THEN <<>>
  ELSE (IF i \in DOMAIN c.sections /\ ~c.sections[i].building /\ c.sections[i].dirty
        THEN << <<c.position[1], c.sections[i].y, c.position[2], c.sections[i].key>> >>
        ELSE <<>>) \o DirtyOfChunk(c, i + 1)

RECURSIVE DirtyOfChunks(_, _)
DirtyOfChunks(ch, order) ==
  IF order = <<>> THEN <<>>
  ELSE DirtyOfChunk(ch[Head(order)], 0) \o DirtyOfChunks(ch, Tail(order))

\* World::get_dirty_chunk_sections()
GetDirtyChunkSections(ch) == DirtyOfChunks(ch, IterOrder(DOMAIN ch))

\* the outcome of indexing chunk.sections with pos.1 as usize
IndexPanics(ch, pos) == <<pos[1], pos[3]>> \in DOMAIN ch /\ pos[2] \notin Slots

\* WorldSetBuildingFlag that acts on a dirty Section that is not building only
WorldSetBuildingFlag_Guarded(ch, pos) ==
  LET cpos == <<pos[1], pos[3]>>
  IN IF /\ cpos \in DOMAIN ch /\ pos[2] \in DOMAIN ch[cpos].sections
        /\ ch[cpos].sections[pos[2]].dirty /\ ~ch[cpos].sections[pos[2]].building
     THEN [ch EXCEPT ![cpos].sections[pos[2]].building = TRUE,
                     ![cpos].sections[pos[2]].dirty = FALSE]
     ELSE ch

\* World::set_building_flag(pos), for an index inside the array
WorldSetBuildingFlag(ch, pos) ==
  LET cpos == <<pos[1], pos[3]>>
  IN IF cpos \in DOMAIN ch /\ pos[2] \in DOMAIN ch[cpos].sections
     THEN [ch EXCEPT ![cpos].sections[pos[2]].building = TRUE,
                     ![cpos].sections[pos[2]].dirty = FALSE]
     ELSE ch

\* WorldResetBuildingFlag that also clears `dirty'
WorldResetBuildingFlag_ClearsDirty(ch, pos) ==
  LET cpos == <<pos[1], pos[3]>>
  IN IF cpos \in DOMAIN ch /\ pos[2] \in DOMAIN ch[cpos].sections
     THEN [ch EXCEPT ![cpos].sections[pos[2]].building = FALSE,
                     ![cpos].sections[pos[2]].dirty = FALSE]
     ELSE ch

\* World::reset_building_flag(pos), for an index inside the array
WorldResetBuildingFlag(ch, pos) ==
  LET cpos == <<pos[1], pos[3]>>
  IN IF cpos \in DOMAIN ch /\ pos[2] \in DOMAIN ch[cpos].sections
     THEN [ch EXCEPT ![cpos].sections[pos[2]].building = FALSE]
     ELSE ch

\* World::flag_dirty_all()
WorldFlagDirtyAll(ch) ==
  [cpos \in DOMAIN ch |->
     [ch[cpos] EXCEPT !.sections =
        [i \in DOMAIN ch[cpos].sections |-> [ch[cpos].sections[i] EXCEPT !.dirty = TRUE]]]]

\* World::unload_chunk(x, z)
WorldUnloadChunk(ch, x, z) == MapRemove(ch, <<x, z>>)

\* FlagSectionDirty that flags nothing
FlagSectionDirty_Nothing(ch, x, y, z) == ch

\* World::flag_section_dirty(x, y, z)
FlagSectionDirty(ch, x, y, z) ==
  IF y < 0 \/ y > 15 THEN ch
  ELSE IF <<x, z>> \in DOMAIN ch /\ y \in DOMAIN ch[<<x, z>>].sections
  THEN [ch EXCEPT ![<<x, z>>].sections[y].dirty = TRUE]
  ELSE ch

(***************************************************************************)
(* World::load_chunk.  The payload `data' is the byte stream as the        *)
(* sequence of the per-Section groups it serialises; a group is            *)
(*   [bit_size, palette, words, block_light, sky_light, ends]              *)
(* where palette is the VarInt ids (read only when bit_size <= 8), words   *)
(* is the u64 array [words, bits] (see bit::Map), the two light fields are *)
(* the 2048 bytes each, and `ends' names the field in which the stream     *)
(* runs out ("full" when the group is complete).  A stream that holds      *)
(* fewer groups than the mask selects runs out at the next bit_size byte.  *)
(***************************************************************************)
\* the local palette table block_map of load_chunk: lines 200-207
LocalPalette(g) ==
  IF g.bit_size <= 8
  THEN [i \in 0 .. (Len(g.palette) - 1) |-> g.palette[i + 1]]
  ELSE <<>>

\* the block of packed value i: lines 213-215
DecodeBlock(m, block_map, i) ==
  LET val == BitGet(m, i)
      block_id == IF val \in DOMAIN block_map THEN block_map[val] ELSE val
  IN ByVanillaId(block_id)

\* LoadCell with the y and z of lines 218-219 exchanged
LoadCell_SwappedAxes(sec, m, block_map, i) ==
  SectionSetBlock(sec, i % 16, (i \div 16) % 16, i \div 256, DecodeBlock(m, block_map, i))

\* one iteration of the cell loop: lines 213-222
LoadCell(sec, m, block_map, i) ==
  SectionSetBlock(sec, i % 16, i \div 256, (i \div 16) % 16, DecodeBlock(m, block_map, i))

\* TLC evaluates an operator's argument when it is first used; the loops
\* below test their accumulator on entry, so that it is evaluated before the
\* next iteration starts and the evaluation does not nest
Evaluated(s) == s.dirty \in BOOLEAN

RECURSIVE LoadRange(_, _, _, _, _, _)
\* the cell loop for i in lo .. hi when every cell of the range holds packed
\* value 0 and palette index 0: if slot 0 already holds the block decoded
\* from 0, each iteration returns at line 438 and the Section is unchanged;
\* if not, the iterations are taken one by one
LoadZeroRun(sec, m, block_map, lo, hi) ==
  IF sec.block_map[1][1] = DecodeBlock(m, block_map, lo) THEN sec
  ELSE LoadRange(sec, m, block_map, lo, hi, lo .. hi)

\* the cell loop for i in lo .. hi, in ascending order, the range halved until
\* it is one cell or a run of zero cells; `todo' are the cells of the range
\* whose packed value or palette index may differ from 0
LoadRange(sec, m, block_map, lo, hi, todo) ==
  IF ~Evaluated(sec) THEN sec
  ELSE IF todo = {} THEN LoadZeroRun(sec, m, block_map, lo, hi)
  ELSE IF lo = hi THEN LoadCell(sec, m, block_map, lo)
  ELSE LET mid == (lo + hi) \div 2
       IN LoadRange(LoadRange(sec, m, block_map, lo, mid, { c \in todo : c <= mid }),
                    m, block_map, mid + 1, hi, { c \in todo : c > mid })

\* for i in 0 .. 4096 { section.set_block(..) }: lines 212-223
LoadCells(sec, m, block_map) ==
  LoadRange(sec, m, block_map, 0, SectionCells - 1,
            BitNonZero(m) \cup BitNonZero(sec.blocks))

\* read_exact(&mut light.data) from a stream that holds the 2048 bytes
ReadLight(light, bytes) == [light EXCEPT !.fill = bytes.fill, !.data = bytes.data]

\* read_exact from a stream that runs out: an error; the bytes that were
\* there (bytes.data, a prefix) are stored when `torn', else nothing is
ReadLightShort(light, bytes, torn) ==
  IF torn
  THEN [light EXCEPT !.data = [k \in (DOMAIN @ \cup DOMAIN bytes.data) |->
                                 IF k \in DOMAIN bytes.data THEN bytes.data[k] ELSE @[k]]]
  ELSE light

\* the body of the slot loop for one selected slot: lines 197-226;
\* the result is [sec, ok]
LoadSection(sec0, g, torn) ==
  LET sec == [sec0 EXCEPT !.dirty = TRUE]
  IN IF g.ends = "bit_size" \/ g.ends = "palette" \/ g.ends = "words"
     THEN [sec |-> sec, ok |-> FALSE]
     ELSE LET m == BitMapFromRaw(g.words, g.bit_size)
              loaded == LoadCells(sec, m, LocalPalette(g))
          IN IF g.ends = "block_light"
             THEN [sec |-> [loaded EXCEPT !.block_light = ReadLightShort(@, g.block_light, torn)],
                   ok |-> FALSE]
             ELSE IF g.ends = "sky_light"
             THEN [sec |-> [loaded EXCEPT !.block_light = ReadLight(@, g.block_light),
                                          !.sky_light = ReadLightShort(@, g.sky_light, torn)],
                   ok |-> FALSE]
             ELSE [sec |-> [loaded EXCEPT !.block_light = ReadLight(@, g.block_light),
                                          !.sky_light = ReadLight(@, g.sky_light)],
                   ok |-> TRUE]

\* the stream has run out where a group should start
NoGroup == [ends |-> "bit_size"]

\* LoadSlots that goes on with the next selected slot after a failed read
RECURSIVE LoadSlots_KeepsGoing(_, _, _, _, _, _, _)
LoadSlots_KeepsGoing(chunk, x, z, i, mask, data, torn) ==
  IF i > 15 THEN [chunk |-> chunk, ok |-> TRUE]
  ELSE IF BitOf(mask, i) = 0 THEN LoadSlots_KeepsGoing(chunk, x, z, i + 1, mask, data, torn)
  ELSE LET sec0 == IF i \in DOMAIN chunk.sections THEN chunk.sections[i] ELSE SectionNew(x, i, z)
           g == IF data = <<>> THEN NoGroup ELSE Head(data)
           r == LoadSection(sec0, g, torn)
           chunk1 == [chunk EXCEPT !.sections = MapPut(@, i, r.sec)]
           rest == IF data = <<>> THEN <<>> ELSE Tail(data)
       IN IF r.ok
          THEN LoadSlots_KeepsGoing(chunk1, x, z, i + 1, mask, rest, torn)
          ELSE [chunk |-> LoadSlots_KeepsGoing(chunk1, x, z, i + 1, mask, rest, torn).chunk,
                ok |-> FALSE]

\* for i in 0 .. 16 over the selected slots: lines 189-227;
\* the result is [chunk, ok]
RECURSIVE LoadSlots(_, _, _, _, _, _, _)
LoadSlots(chunk, x, z, i, mask, data, torn) ==
  IF i > 15 THEN [chunk |-> chunk, ok |-> TRUE]
  ELSE IF BitOf(mask, i) = 0 THEN LoadSlots(chunk, x, z, i + 1, mask, data, torn)
  ELSE LET sec0 == IF i \in DOMAIN chunk.sections THEN chunk.sections[i] ELSE SectionNew(x, i, z)
           g == IF data = <<>> THEN NoGroup ELSE Head(data)
           r == LoadSection(sec0, g, torn)
           chunk1 == [chunk EXCEPT !.sections = MapPut(@, i, r.sec)]
       IN IF r.ok
          THEN LoadSlots(chunk1, x, z, i + 1, mask, Tail(data), torn)
          ELSE [chunk |-> chunk1, ok |-> FALSE]

\* the six neighbours, in the order of lines 233-236
NeighbourOffsets == << <<-1, 0, 0>>, <<1, 0, 0>>, <<0, -1, 0>>, <<0, 1, 0>>, <<0, 0, -1>>, <<0, 0, 1>> >>

RECURSIVE FlagNeighbours(_, _, _, _, _)
FlagNeighbours(ch, x, i, z, n) ==
  IF n > Len(NeighbourOffsets) THEN ch
  ELSE FlagNeighbours(FlagSectionDirty(ch, x + NeighbourOffsets[n][1], i + NeighbourOffsets[n][2],
                                       z + NeighbourOffsets[n][3]),
                      x, i, z, n + 1)

\* for i in 0 .. 16 over the selected slots: lines 229-239
RECURSIVE FlagLoaded(_, _, _, _, _)
FlagLoaded(ch, x, z, i, mask) ==
  IF i > 15 THEN ch
  ELSE IF BitOf(mask, i) = 0 THEN FlagLoaded(ch, x, z, i + 1, mask)
  ELSE FlagLoaded(FlagNeighbours(ch, x, i, z, 1), x, z, i + 1, mask)

\* WorldLoadChunk that keeps an existing column when `new' is set
WorldLoadChunk_KeepsColumn(ch, x, z, new, mask, data, torn) ==
  LET cpos == <<x, z>>
  IN IF ~new /\ cpos \notin DOMAIN ch THEN [chunks |-> ch, ok |-> TRUE]
     ELSE LET ch1 == IF new /\ cpos \notin DOMAIN ch THEN MapPut(ch, cpos, ChunkNew(cpos)) ELSE ch
              r == LoadSlots(ch1[cpos], x, z, 0, mask, data, torn)
              ch2 == [ch1 EXCEPT ![cpos] = r.chunk]
          IN IF r.ok
             THEN [chunks |-> FlagLoaded(ch2, x, z, 0, mask), ok |-> TRUE]
             ELSE [chunks |-> ch2, ok |-> FALSE]

\* World::load_chunk(x, z, new, mask, data); the result is [chunks, ok]
WorldLoadChunk(ch, x, z, new, mask, data, torn) ==
  LET cpos == <<x, z>>
  IN IF ~new /\ cpos \notin DOMAIN ch THEN [chunks |-> ch, ok |-> TRUE]
     ELSE LET ch1 == IF new THEN MapPut(ch, cpos, ChunkNew(cpos)) ELSE ch
              r == LoadSlots(ch1[cpos], x, z, 0, mask, data, torn)
              ch2 == [ch1 EXCEPT ![cpos] = r.chunk]
          IN IF r.ok
             THEN [chunks |-> FlagLoaded(ch2, x, z, 0, mask), ok |-> TRUE]
             ELSE [chunks |-> ch2, ok |-> FALSE]

(***************************************************************************)
(* Inputs of the operations                                                *)
(***************************************************************************)
\* the u64 array that packs the values vals[i] at width size
PackWords(vals, size) ==
  [words |-> (SectionCells * size) \div 64,
   bits |-> UNION { { i * size + k : k \in { j \in 0 .. (size - 1) : BitOf(vals[i], j) = 1 } }
                    : i \in DOMAIN vals }]

\* 2048 light bytes: `fill' everywhere but at the listed bytes
LightBytes(fill, data) == [fill |-> fill, data |-> data]

\* a complete group
Group(bit_size, palette, vals, block_light, sky_light) ==
  [bit_size |-> bit_size, palette |-> palette, words |-> PackWords(vals, bit_size),
   block_light |-> block_light, sky_light |-> sky_light, ends |-> "full"]

Stone == ByVanillaId(16)

Dirt == ByVanillaId(48)

\* width 4, palette [air, stone], all cells 0 but cell (x 3, y 1, z 2)
GroupStone ==
  Group(4, <<VanillaId(Air), VanillaId(Stone)>>, (291 :> 1),
        LightBytes(0, (0 :> 33)), LightBytes(255, <<>>))

\* width 13, global ids: dirt, stone and an unregistered id
GroupDirect ==
  Group(13, <<>>, (0 :> VanillaId(Dirt)) @@ (17 :> VanillaId(Stone)) @@ (4095 :> 33),
        LightBytes(0, <<>>), LightBytes(255, (2047 :> 15)))

\* width 4, every cell air
GroupAir == Group(4, <<VanillaId(Air)>>, <<>>, LightBytes(0, <<>>), LightBytes(255, <<>>))

\* width 8, a palette of one entry and a value outside it
GroupOutside ==
  Group(8, <<VanillaId(Air)>>, (5 :> VanillaId(Dirt)), LightBytes(0, <<>>), LightBytes(255, <<>>))

\* width 13, n distinct registered blocks in cells 0 .. n - 1
GroupDistinct(n) ==
  Group(13, <<>>, [i \in 0 .. (n - 1) |-> VanillaId(i + 2)],
        LightBytes(0, <<>>), LightBytes(255, <<>>))

\* a group cut short in field `ends'
Cut(g, ends) == [g EXCEPT !.ends = ends]

(***************************************************************************)
(* Snapshot: `blocks' is the Vec<u16> (index i at position i + 1).  The    *)
(* biome layer is allocated and never written (line 159) and is left out.  *)
(***************************************************************************)
Min(a, b) == IF a < b THEN a ELSE b

Max(a, b) == IF a > b THEN a ELSE b

\* for i in lo .. hi { acc = Body(acc, i) }
RECURSIVE ForRange(_, _, _, _)
ForRange(Body(_, _), acc, lo, hi) ==
  IF lo >= hi THEN acc ELSE ForRange(Body, Body(acc, lo), lo + 1, hi)

\* Snapshot::index(x, y, z)
SnapshotIndex(snap, x, y, z) ==
  (x - snap.x) + ((z - snap.z) * snap.w) + ((y - snap.y) * snap.w * snap.d)

\* Snapshot::get_block(x, y, z)
SnapshotGetBlock(snap, x, y, z) == ByStevenId(snap.blocks[SnapshotIndex(snap, x, y, z) + 1])

\* Snapshot::set_block(x, y, z, b): the id is stored as u16
SnapshotSetBlock(snap, x, y, z, b) ==
  [snap EXCEPT !.blocks[SnapshotIndex(snap, x, y, z) + 1] = GetStevenId(b) % (2 ^ 16)]

\* Snapshot::get_block_light(x, y, z)
SnapshotGetBlockLight(snap, x, y, z) == NibbleGet(snap.block_light, SnapshotIndex(snap, x, y, z))

\* Snapshot::set_block_light(x, y, z, l)
SnapshotSetBlockLight(snap, x, y, z, l) ==
  [snap EXCEPT !.block_light = NibbleSet(@, SnapshotIndex(snap, x, y, z), l)]

\* Snapshot::get_sky_light(x, y, z)
SnapshotGetSkyLight(snap, x, y, z) == NibbleGet(snap.sky_light, SnapshotIndex(snap, x, y, z))

\* Snapshot::set_sky_light(x, y, z, l)
SnapshotSetSkyLight(snap, x, y, z, l) ==
  [snap EXCEPT !.sky_light = NibbleSet(@, SnapshotIndex(snap, x, y, z), l)]

\* Snapshot::make_relative(x, y, z)
SnapshotMakeRelative(snap, x, y, z) == [snap EXCEPT !.x = x, !.y = y, !.z = z]

\* capture_snapshot, the allocation and the default fill: lines 98-110
SnapshotNew(x, y, z, w, h, d) ==
  LET zeroed == [blocks |-> [i \in 1 .. (w * h * d) |-> 0],
                 block_light |-> NibbleNew(w * h * d),
                 sky_light |-> NibbleNew(w * h * d),
                 x |-> x, y |-> y, z |-> z, w |-> w, h |-> h, d |-> d]
  IN ForRange(LAMBDA snap, i :
                [snap EXCEPT !.sky_light = NibbleSet(@, i, 15),
                             !.blocks[i + 1] = GetStevenId(Missing) % (2 ^ 16)],
              zeroed, 0, w * h * d)

\* CaptureCell without the None branch of lines 149-151
CaptureCell_SkipsAbsent(snap, chunk, cx, cy, cz, xx, yy, zz) ==
  LET ox == xx + (cx * 16)
      oy == yy + (cy * 16)
      oz == zz + (cz * 16)
  IN IF cy \in DOMAIN chunk.sections
     THEN LET sec == chunk.sections[cy]
          IN SnapshotSetSkyLight(
               SnapshotSetBlockLight(
                 SnapshotSetBlock(snap, ox, oy, oz, SectionGetBlock(sec, xx, yy, zz)),
                 ox, oy, oz, SectionGetBlockLight(sec, xx, yy, zz)),
               ox, oy, oz, SectionGetSkyLight(sec, xx, yy, zz))
     ELSE snap

\* capture_snapshot, the body of the innermost loop: lines 142-154
CaptureCell(snap, chunk, cx, cy, cz, xx, yy, zz) ==
  LET ox == xx + (cx * 16)
      oy == yy + (cy * 16)
      oz == zz + (cz * 16)
  IN IF cy \in DOMAIN chunk.sections
     THEN LET sec == chunk.sections[cy]
          IN SnapshotSetSkyLight(
               SnapshotSetBlockLight(
                 SnapshotSetBlock(snap, ox, oy, oz, SectionGetBlock(sec, xx, yy, zz)),
                 ox, oy, oz, SectionGetBlockLight(sec, xx, yy, zz)),
               ox, oy, oz, SectionGetSkyLight(sec, xx, yy, zz))
     ELSE SnapshotSetBlock(snap, ox, oy, oz, Air)

\* capture_snapshot, the loop over the slots of one chunk: lines 131-158
CaptureSection(snap0, chunk, cx, cy, cz) ==
  IF cy < 0 \/ cy > 15 THEN snap0
  ELSE LET x1 == Min(16, Max(0, snap0.x - (cx * 16)))
           x2 == Min(16, Max(0, snap0.x + snap0.w - (cx * 16)))
           z1 == Min(16, Max(0, snap0.z - (cz * 16)))
           z2 == Min(16, Max(0, snap0.z + snap0.d - (cz * 16)))
           y1 == Min(16, Max(0, snap0.y - (cy * 16)))
           y2 == Min(16, Max(0, snap0.y + snap0.h - (cy * 16)))
       IN ForRange(LAMBDA s1, yy :
            ForRange(LAMBDA s2, zz :
              ForRange(LAMBDA s3, xx : CaptureCell(s3, chunk, cx, cy, cz, xx, yy, zz),
                       s2, x1, x2),
              s1, z1, z2),
            snap0, y1, y2)

\* World::capture_snapshot(x, y, z, w, h, d)
CaptureSnapshot(ch, x, y, z, w, h, d) ==
  LET cx1 == x \div 16
      cy1 == y \div 16
      cz1 == z \div 16
      cx2 == (x + w + 15) \div 16
      cy2 == (y + h + 15) \div 16
      cz2 == (z + d + 15) \div 16
  IN ForRange(LAMBDA s1, cx :
       ForRange(LAMBDA s2, cz :
         IF <<cx, cz>> \notin DOMAIN ch THEN s2
         ELSE ForRange(LAMBDA s3, cy : CaptureSection(s3, ch[<<cx, cz>>], cx, cy, cz),
                       s2, cy1, cy2),
         s1, cz1, cz2),
       SnapshotNew(x, y, z, w, h, d), cx1, cx2)

(***************************************************************************)
(* The state                                                               *)
(***************************************************************************)
VARIABLES
  chunks,   \* World.chunks
  sec,      \* a Section on its own (SpecSection)
  builds,   \* the consumer's builds in flight: (column, slot, column) -> number
  last,     \* the last call: [op, args, out]
  nops      \* the number of calls made

vars == <<chunks, sec, builds, last, nops>>

Call(op, args, out) == [op |-> op, args |-> args, out |-> out]

\* World::new(), and Section::new(0, 0, 0) for SpecSection
Init ==
  /\ chunks = <<>>
  /\ sec = SectionNew(0, 0, 0)
  /\ builds = <<>>
  /\ last = Call("new", <<>>, <<>>)
  /\ nops = 0

(***************************************************************************)
(* The calls of the owner of the World                                     *)
(***************************************************************************)
SetBlock(x, y, z, b) ==
  /\ chunks' = WorldSetBlock(chunks, x, y, z, b)
  /\ last' = Call("set_block", <<x, y, z, b>>, <<>>)
  /\ nops' = nops + 1
  /\ UNCHANGED <<sec, builds>>

SetBuildingFlag(pos) ==
  /\ IF IndexPanics(chunks, pos)
     THEN /\ last' = Call("set_building_flag", pos, "panic")
          /\ UNCHANGED chunks
     ELSE /\ last' = Call("set_building_flag", pos, "ok")
          /\ chunks' = WorldSetBuildingFlag(chunks, pos)
  /\ nops' = nops + 1
  /\ UNCHANGED <<sec, builds>>

ResetBuildingFlag(pos) ==
  /\ IF IndexPanics(chunks, pos)
     THEN /\ last' = Call("reset_building_flag", pos, "panic")
          /\ UNCHANGED chunks
     ELSE /\ last' = Call("reset_building_flag", pos, "ok")
          /\ chunks' = WorldResetBuildingFlag(chunks, pos)
  /\ nops' = nops + 1
  /\ UNCHANGED <<sec, builds>>

FlagDirtyAll ==
  /\ chunks' = WorldFlagDirtyAll(chunks)
  /\ last' = Call("flag_dirty_all", <<>>, <<>>)
  /\ nops' = nops + 1
  /\ UNCHANGED <<sec, builds>>

UnloadChunk(x, z) ==
  /\ chunks' = WorldUnloadChunk(chunks, x, z)
  /\ last' = Call("unload_chunk", <<x, z>>, <<>>)
  /\ nops' = nops + 1
  /\ UNCHANGED <<sec, builds>>

\* a read_exact that fails may or may not have stored the bytes it got
Torn(data) ==
  IF \E i \in 1 .. Len(data) : data[i].ends \in {"block_light", "sky_light"}
  THEN BOOLEAN ELSE {FALSE}

LoadChunk(x, z, new, mask, data) ==
  /\ \E torn \in Torn(data) :
       LET r == WorldLoadChunk(chunks, x, z, new, mask, data, torn)
       IN /\ chunks' = r.chunks
          /\ last' = Call("load_chunk", <<x, z, new, mask, data>>, IF r.ok THEN "Ok" ELSE "Err")
  /\ nops' = nops + 1
  /\ UNCHANGED <<sec, builds>>

(***************************************************************************)
(* The consumer: it polls get_dirty_chunk_sections, calls                  *)
(* set_building_flag for each entry and starts a build for it; when a      *)
(* build finishes it calls reset_building_flag for the build's position.   *)
(* Both run in the owner's context, between the owner's calls.             *)
(***************************************************************************)
RECURSIVE StartBuilds(_, _)
StartBuilds(state, entries) ==
  IF entries = <<>> THEN state
  ELSE LET pos == <<Head(entries)[1], Head(entries)[2], Head(entries)[3]>>
           n == IF pos \in DOMAIN state.builds THEN state.builds[pos] ELSE 0
       IN StartBuilds([chunks |-> WorldSetBuildingFlag(state.chunks, pos),
                       builds |-> MapPut(state.builds, pos, n + 1)],
                      Tail(entries))

ConsumerPoll ==
  /\ LET entries == GetDirtyChunkSections(chunks)
         r == StartBuilds([chunks |-> chunks, builds |-> builds], entries)
     IN /\ chunks' = r.chunks
        /\ builds' = r.builds
        /\ last' = Call("poll", <<>>, entries)
  /\ nops' = nops + 1
  /\ UNCHANGED sec

FinishBuild(pos) ==
  /\ pos \in DOMAIN builds
  /\ chunks' = WorldResetBuildingFlag(chunks, pos)
  /\ builds' = IF builds[pos] = 1 THEN MapRemove(builds, pos) ELSE MapPut(builds, pos, builds[pos] - 1)
  /\ last' = Call("finish_build", pos, <<>>)
  /\ nops' = nops + 1
  /\ UNCHANGED sec

(***************************************************************************)
(* The calls on one Section                                                *)
(***************************************************************************)
SecSetBlock(x, y, z, b) ==
  /\ sec' = SectionSetBlock(sec, x, y, z, b)
  /\ last' = Call("Section::set_block", <<x, y, z, b>>, <<>>)
  /\ nops' = nops + 1
  /\ UNCHANGED <<chunks, builds>>

\* the body of load_chunk's slot loop, for one group
SecLoad(g) ==
  /\ \E torn \in Torn(<<g>>) :
       LET r == LoadSection(sec, g, torn)
       IN /\ sec' = r.sec
          /\ last' = Call("load", <<g>>, IF r.ok THEN "Ok" ELSE "Err")
  /\ nops' = nops + 1
  /\ UNCHANGED <<chunks, builds>>

(***************************************************************************)
(* Inputs of the calls                                                     *)
(***************************************************************************)
\* set_block: cell 0 of slot 0 and a cell of slot 1 of column (0, 0), columns
\* (-1, 0) and (0, 1), slot 15, and heights below and above the world
SetInputs ==
  { <<0, 0, 0, b>> : b \in {Air, Stone, Dirt, Missing} } \cup
  { <<3, 17, 2, b>> : b \in {Air, Stone} } \cup
  { <<-1, 0, 0, Stone>>, <<0, 255, 16, Dirt>>, <<0, -1, 0, Stone>>, <<16, 256, 0, Stone>> }

\* load_chunk: (mask, data)
LoadInputs ==
  { [mask |-> 1, data |-> <<GroupStone>>],
    [mask |-> 2, data |-> <<GroupDirect>>],
    [mask |-> 3, data |-> <<GroupAir, GroupOutside>>],
    [mask |-> 3, data |-> <<GroupStone>>],
    [mask |-> 32769, data |-> <<GroupDistinct(16), GroupStone>>] }

\* load_chunk and unload_chunk: the column
Columns == { <<0, 0>>, <<-1, 0>> }

Next ==
  \/ nops < MaxOps /\ \E in \in SetInputs : SetBlock(in[1], in[2], in[3], in[4])
  \/ nops < MaxOps /\ \E c \in Columns, new \in BOOLEAN, in \in LoadInputs :
                        LoadChunk(c[1], c[2], new, in.mask, in.data)
  \/ nops < MaxOps /\ \E c \in Columns : UnloadChunk(c[1], c[2])

Spec == Init /\ [][Next]_vars

\* SpecFlags: the building and dirty flags
FlagSetInputs ==
  { <<0, 0, 0, Stone>>, <<0, 0, 0, Dirt>>, <<0, 16, 0, Stone>>, <<-1, 0, 0, Stone>> }

FlagPositions ==
  { <<0, 0, 0>>, <<0, 1, 0>>, <<-1, 0, 0>>, <<0, 16, 0>>, <<0, -1, 0>>, <<5, 0, 5>> }

FlagLoadInputs ==
  { [mask |-> 1, data |-> <<GroupStone>>],
    [mask |-> 2, data |-> <<GroupAir>>] }

NextFlags ==
  \/ nops < MaxFlagOps /\ \E in \in FlagSetInputs : SetBlock(in[1], in[2], in[3], in[4])
  \/ nops < MaxFlagOps /\ \E pos \in FlagPositions : SetBuildingFlag(pos)
  \/ nops < MaxFlagOps /\ \E pos \in FlagPositions : ResetBuildingFlag(pos)
  \/ nops < MaxFlagOps /\ FlagDirtyAll
  \/ nops < MaxFlagOps /\ \E new \in BOOLEAN, in \in FlagLoadInputs : LoadChunk(0, 0, new, in.mask, in.data)
  \/ nops < MaxFlagOps /\ UnloadChunk(0, 0)

SpecFlags == Init /\ [][NextFlags]_vars

\* SpecConsumer: the owner's calls interleaved with the consumer
BuildSetInputs == { <<0, 0, 0, Stone>>, <<0, 0, 0, Dirt>>, <<0, 16, 0, Stone>> }

NextConsumer ==
  \/ nops < MaxBuildOps /\ \E in \in BuildSetInputs : SetBlock(in[1], in[2], in[3], in[4])
  \/ nops < MaxBuildOps /\ \E new \in BOOLEAN : LoadChunk(0, 0, new, 1, <<GroupStone>>)
  \/ nops < MaxBuildOps /\ UnloadChunk(0, 0)
  \/ nops < MaxBuildOps /\ FlagDirtyAll
  \/ nops < MaxBuildOps /\ ConsumerPoll
  \/ nops < MaxBuildOps /\ \E pos \in DOMAIN builds : FinishBuild(pos)

SpecConsumer == Init /\ [][NextConsumer]_vars

\* SpecSection: one Section
SecSetInputs ==
  { <<x, 0, 0, b>> : x \in {0, 1}, b \in {Air, Stone, ByVanillaId(16 * 299)} } \cup
  { <<15, 15, 15, b>> : b \in {Dirt, ByVanillaId(16 * 299)} }

SecLoadInputs ==
  { GroupStone, GroupDistinct(15), GroupDistinct(16), GroupDistinct(255) }

NextSection ==
  \/ nops < MaxSecOps /\ \E in \in SecSetInputs : SecSetBlock(in[1], in[2], in[3], in[4])
  \/ nops < MaxSecOps /\ \E g \in SecLoadInputs : SecLoad(g)

SpecSection == Init /\ [][NextSection]_vars

\* SpecLoad: payloads loaded over earlier content of column (0, 0)
LoadSetInputs == { <<0, 0, 0, Stone>>, <<3, 1, 2, Dirt>>, <<3, 17, 2, Stone>> }

LoadOnlyInputs == LoadInputs \cup { [mask |-> 1, data |-> <<GroupDistinct(16)>>] }

NextLoad ==
  \/ nops < MaxLoadOps /\ \E in \in LoadSetInputs : SetBlock(in[1], in[2], in[3], in[4])
  \/ nops < MaxLoadOps /\ \E new \in BOOLEAN, in \in LoadOnlyInputs : LoadChunk(0, 0, new, in.mask, in.data)

SpecLoad == Init /\ [][NextLoad]_vars

\* SpecFill: distinct blocks written into distinct cells of a new Section.
\* Write i puts the i-th registered block into cell (241 * i) mod 4096; the
\* writes start at any i and go on in ascending order, from the last back to
\* the first.
FillPairs == 1 .. (MaxFillOps + 1)

FillCell(i) ==
  LET c == (241 * i) % SectionCells
  IN <<c % 16, c \div 256, (c \div 16) % 16>>

FillBlock(i) == ByVanillaId(16 * i)

\* the writes whose cell reads the block of the write
FillRead(s) ==
  { i \in FillPairs :
      SectionGetBlock(s, FillCell(i)[1], FillCell(i)[2], FillCell(i)[3]) = FillBlock(i) }

SecFill(i) ==
  /\ i \in FillPairs \ FillRead(sec)
  /\ \/ FillRead(sec) = {}
     \/ (IF i = 1 THEN MaxFillOps + 1 ELSE i - 1) \in FillRead(sec)
  /\ SecSetBlock(FillCell(i)[1], FillCell(i)[2], FillCell(i)[3], FillBlock(i))

NextFill == nops < MaxFillOps /\ \E i \in FillPairs : SecFill(i)

SpecFill == Init /\ [][NextFill]_vars

\* SpecTrunc: payloads that end inside a group or hold fewer groups than the
\* mask selects, loaded over earlier content of column (0, 0)
TruncSetInputs == { <<3, 17, 2, Stone>>, <<5, 40, 5, Dirt>> }

TruncInputs ==
  { [mask |-> 7, data |-> <<GroupStone, Cut(GroupDirect, e)>>] :
      e \in {"bit_size", "palette", "words", "block_light", "sky_light"} } \cup
  { [mask |-> 5, data |-> <<Cut(GroupStone, e)>>] : e \in {"palette", "sky_light"} } \cup
  { [mask |-> 6, data |-> <<GroupDirect>>],
    [mask |-> 7, data |-> <<GroupDirect, GroupStone, Cut(GroupDistinct(16), "block_light")>>],
    [mask |-> 4, data |-> <<GroupStone>>] }

NextTrunc ==
  \/ nops < MaxTruncOps /\ \E in \in TruncSetInputs : SetBlock(in[1], in[2], in[3], in[4])
  \/ nops < MaxTruncOps /\ \E new \in BOOLEAN, in \in TruncInputs :
                             LoadChunk(0, 0, new, in.mask, in.data)

SpecTrunc == Init /\ [][NextTrunc]_vars

\* SpecEdit: set_block on Sections with a full palette, next to Sections
\* that are clean or building
EditSetInputs ==
  { <<15, 15, 15, ByVanillaId(16 * 299)>>, <<0, 0, 0, ByVanillaId(16 * 299)>>,
    <<1, 0, 0, Air>>, <<3, 17, 2, Stone>>, <<16, 0, 0, Stone>> }

EditLoadInputs ==
  { [mask |-> 1, data |-> <<GroupDistinct(15)>>],
    [mask |-> 3, data |-> <<GroupDistinct(15), GroupStone>>] }

EditFlagPositions == { <<0, 0, 0>>, <<0, 1, 0>>, <<1, 0, 0>> }

NextEdit ==
  \/ nops < MaxEditOps /\ \E in \in EditSetInputs : SetBlock(in[1], in[2], in[3], in[4])
  \/ nops < MaxEditOps /\ \E in \in EditLoadInputs : LoadChunk(0, 0, TRUE, in.mask, in.data)
  \/ nops < MaxEditOps /\ \E pos \in EditFlagPositions : SetBuildingFlag(pos)

SpecEdit == Init /\ [][NextEdit]_vars

(***************************************************************************)
(* Properties of one Section (SpecSection)                                 *)
(***************************************************************************)
\* the palette slots of s (0 based) and the live ones
PaletteSlots(s) == 0 .. (Len(s.block_map) - 1)

Live(s, i) == s.block_map[i + 1][2] # U32Zero

RECURSIVE SumCountsIn(_, _, _)
SumCountsIn(s, lo, hi) ==
  IF lo > hi THEN U32Zero
  ELSE IF lo = hi THEN s.block_map[lo][2]
  ELSE LET mid == (lo + hi) \div 2
       IN U32Add(SumCountsIn(s, lo, mid), SumCountsIn(s, mid + 1, hi))

\* the exact sum of the reference counts of the palette of s
SumCounts(s) == SumCountsIn(s, 1, Len(s.block_map))

\* C5 as stated: the reference counts of the palette of a Section sum to 4096.
C5_SumIs4096 == SumCounts(sec) = <<0, SectionCells>>

\* C5, amended: in every reachable state the reference counts of the palette
\* of a Section sum to 0xFFFFFFFF, the count Section::new gives the Air entry.
C5_SumIsU32Max == SumCounts(sec) = U32Max

\* C5: set_block has moved counts between several slots, one of them freed
C5_Witness ==
  /\ last.op = "Section::set_block"
  /\ \E i, j \in PaletteSlots(sec) : i # 0 /\ j # 0 /\ Live(sec, i) /\ ~Live(sec, j)

\* C6: no two live palette slots of a Section hold the same block, and the
\* reverse lookup maps the block of every live slot to that slot.
C6_NoLiveDuplicates ==
  /\ \A i, j \in PaletteSlots(sec) :
       (i # j /\ Live(sec, i) /\ Live(sec, j)) => sec.block_map[i + 1][1] # sec.block_map[j + 1][1]
  /\ \A i \in PaletteSlots(sec) :
       Live(sec, i) => /\ sec.block_map[i + 1][1] \in DOMAIN sec.rev_block_map
                       /\ sec.rev_block_map[sec.block_map[i + 1][1]] = i

\* C6: a block is written where its own earlier slot was freed and taken by
\* another block: the stale and the live entries are told apart
C6_Witness ==
  /\ last.op = "Section::set_block"
  /\ \E i, j \in PaletteSlots(sec) :
       /\ i # j /\ Live(sec, i) /\ ~Live(sec, j)
       /\ sec.block_map[i + 1][1] = sec.block_map[j + 1][1]

\* the state half of C7
WidthFits(s) ==
  /\ s.blocks.bit_size \in {4, 8, 16}
  /\ Len(s.block_map) <= 2 ^ s.blocks.bit_size
  /\ \A c \in BitNonZero(s.blocks) : BitGet(s.blocks, c) < Len(s.block_map)
  /\ \A i \in PaletteSlots(s) : Live(s, i) => i < 2 ^ s.blocks.bit_size

\* set_block(x, y, z, b) on s needs a palette slot for b and finds none free
NeedsNewSlot(s, x, y, z, b) ==
  LET old == SectionGetBlock(s, x, y, z)
  IN /\ old # b
     /\ b \notin DOMAIN CleanUpOld(s, old).rev_block_map
     /\ FreeSlots(CleanUpOld(s, old)) = {}

\* C7: the width of the packed array of a Section is 4, 8 or 16, the palette
\* is no longer than 2^width and every index in use is below 2^width; a
\* set_block changes the width only to its double and only when it needs a
\* new slot and no slot is free; the set_blocks of a load only double it.
C7_WidthDoubles ==
  [][ /\ WidthFits(sec) /\ WidthFits(sec')
      /\ (last'.op = "Section::set_block" /\ sec'.blocks.bit_size # sec.blocks.bit_size) =>
           /\ sec'.blocks.bit_size = 2 * sec.blocks.bit_size
           /\ NeedsNewSlot(sec, last'.args[1], last'.args[2], last'.args[3], last'.args[4])
      /\ (last'.op = "load") =>
           /\ sec'.blocks.bit_size \in { sec.blocks.bit_size, 2 * sec.blocks.bit_size,
                                        4 * sec.blocks.bit_size }
           /\ (sec'.blocks.bit_size # sec.blocks.bit_size =>
                 Len(sec'.block_map) > Len(sec.block_map)) ]_vars

\* C7: a set_block has just widened the array to 16 bits
C7_Witness ==
  /\ last.op = "Section::set_block"
  /\ sec.blocks.bit_size = 16
  /\ Len(sec.block_map) = 257

(***************************************************************************)
(* Properties of the World (Spec, SpecLoad)                                *)
(***************************************************************************)
\* the Section stored for the cell (x, y, z) exists
HasSection(ch, x, y, z) ==
  /\ <<x \div 16, z \div 16>> \in DOMAIN ch
  /\ (y \div 16) \in DOMAIN ch[<<x \div 16, z \div 16>>].sections

SectionAt(ch, x, y, z) == ch[<<x \div 16, z \div 16>>].sections[y \div 16]

\* C1: after any sequence of World operations, set_block(p, v) on a cell p
\* (a position whose height is within the 16 slots, 0 <= y < 256) followed
\* at once by get_block(p) returns v.
C1_SetThenGet ==
  (last.op = "set_block" /\ last.args[2] \in 0 .. 255) =>
    WorldGetBlock(chunks, last.args[1], last.args[2], last.args[3]) = last.args[4]

\* C1: a cell of an existing Section was overwritten, which freed a palette
\* slot, and reads the new value
C1_Witness ==
  /\ last.op = "set_block"
  /\ last.args = <<3, 17, 2, Air>>
  /\ HasSection(chunks, 3, 17, 2)
  /\ FreeSlots(SectionAt(chunks, 3, 17, 2)) # {}
  /\ WorldGetBlock(chunks, 3, 17, 2) = Air

\* the cuboids (x, y, z, w, h, d) captured
Cuboids ==
  { <<0, 0, 0, 2, 2, 2>>, <<-1, 15, -1, 2, 2, 2>>, <<3, 16, 2, 1, 2, 1>>,
    <<0, -1, 0, 1, 2, 1>>, <<0, 255, 16, 1, 2, 1>>, <<15, 0, 0, 2, 1, 3>> }

CuboidCells(c) ==
  { <<x, y, z>> : x \in c[1] .. (c[1] + c[4] - 1), y \in c[2] .. (c[2] + c[5] - 1),
                  z \in c[3] .. (c[3] + c[6] - 1) }

\* C8: for every cell of a captured cuboid the Snapshot's block is what
\* get_block returns there (missing where the column does not exist, empty
\* where the column exists and the Section does not), and its block light and
\* sky light are the Section's where the Section exists and 0 and 15 where
\* it does not.
C8_SnapshotMatchesWorld ==
  \A c \in Cuboids :
    LET snap == CaptureSnapshot(chunks, c[1], c[2], c[3], c[4], c[5], c[6])
    IN \A p \in CuboidCells(c) :
         LET x == p[1]
             y == p[2]
             z == p[3]
         IN /\ SnapshotGetBlock(snap, x, y, z) = WorldGetBlock(chunks, x, y, z)
            /\ ~IsChunkLoaded(chunks, x \div 16, z \div 16) =>
                 SnapshotGetBlock(snap, x, y, z) = Missing
            /\ (IsChunkLoaded(chunks, x \div 16, z \div 16) /\ (y \div 16) \in Slots
                  /\ ~HasSection(chunks, x, y, z)) =>
                 SnapshotGetBlock(snap, x, y, z) = Air
            /\ IF HasSection(chunks, x, y, z)
               THEN /\ SnapshotGetBlockLight(snap, x, y, z) =
                         SectionGetBlockLight(SectionAt(chunks, x, y, z), x % 16, y % 16, z % 16)
                    /\ SnapshotGetSkyLight(snap, x, y, z) =
                         SectionGetSkyLight(SectionAt(chunks, x, y, z), x % 16, y % 16, z % 16)
               ELSE /\ SnapshotGetBlockLight(snap, x, y, z) = 0
                    /\ SnapshotGetSkyLight(snap, x, y, z) = 15

\* C8: one cuboid covers a loaded Section with light of its own, an absent
\* Section of an existing column is captured, and so is an absent column
C8_Witness ==
  /\ HasSection(chunks, 0, 0, 0)
  /\ SectionGetBlockLight(SectionAt(chunks, 0, 0, 0), 1, 0, 0) = 2
  /\ SnapshotGetBlockLight(CaptureSnapshot(chunks, 0, 0, 0, 2, 2, 2), 1, 0, 0) = 2
  /\ IsChunkLoaded(chunks, 0, 0) /\ ~HasSection(chunks, 3, 17, 2)
  /\ SnapshotGetBlock(CaptureSnapshot(chunks, 3, 16, 2, 1, 2, 1), 3, 17, 2) = Air
  /\ ~IsChunkLoaded(chunks, -1, 0)
  /\ IsChunkLoaded(chunks, 0, 1)
  /\ SnapshotGetBlock(CaptureSnapshot(chunks, 0, 255, 16, 1, 2, 1), 0, 255, 16) = Dirt

\* the block and light contents of slot i of column cpos: none, or one
SlotContent(ch, cpos, i) ==
  IF cpos \in DOMAIN ch /\ i \in DOMAIN ch[cpos].sections
  THEN LET s == ch[cpos].sections[i]
       IN << [blocks |-> s.blocks, block_map |-> s.block_map, rev_block_map |-> s.rev_block_map,
              block_light |-> s.block_light, sky_light |-> s.sky_light] >>
  ELSE <<>>

\* C9: a load_chunk(x, z, isNew, mask, payload), successful or not, leaves
\* the block and light contents of every slot whose mask bit is clear as they
\* were when isNew is false; when isNew is true the column is emptied before
\* any slot is populated: afterwards it exists, holds Sections in masked
\* slots only, and is what the same call makes of a World without the column.
C9_LoadFrame ==
  [][ last'.op = "load_chunk" =>
        LET x == last'.args[1]
            z == last'.args[2]
            new == last'.args[3]
            mask == last'.args[4]
        IN /\ ~new => \A i \in Slots :
                        BitOf(mask, i) = 0 =>
                          SlotContent(chunks', <<x, z>>, i) = SlotContent(chunks, <<x, z>>, i)
           /\ new => /\ <<x, z>> \in DOMAIN chunks'
                     /\ \A i \in Slots :
                          BitOf(mask, i) = 0 => SlotContent(chunks', <<x, z>>, i) = <<>>
                     /\ chunks' = WorldLoadChunk(WorldUnloadChunk(chunks, x, z), x, z, new, mask,
                                                 last'.args[5], FALSE).chunks
           /\ \A cpos \in DOMAIN chunks \ {<<x, z>>} : \A i \in Slots :
                SlotContent(chunks', cpos, i) = SlotContent(chunks, cpos, i) ]_vars

\* C9: slot 0 was loaded with isNew false next to a populated slot 1, and
\* slot 1 still holds its block
C9_Witness ==
  /\ last.op = "load_chunk"
  /\ last.args[3] = FALSE /\ last.args[4] = 1
  /\ WorldGetBlock(chunks, 3, 1, 2) = Stone
  /\ WorldGetBlock(chunks, 3, 17, 2) = Stone

\* the group of the payload that slot s is loaded from
SlotGroup(mask, data, s) == data[Cardinality({ j \in 0 .. s : BitOf(mask, j) = 1 })]

\* the i-th packed value of group g
PackedValue(g, i) == BitGet(BitMapFromRaw(g.words, g.bit_size), i)

\* C10: after a successful load_chunk of slot s of column (cx, cz), for
\* every cell index i in 0 .. 4095, get_block at local (i & 15, i >> 8,
\* (i >> 4) & 15) of that Section is the registry block of the global id of
\* the i-th packed value: the entry of the local palette at that value when
\* the payload has a palette (width <= 8), the value itself otherwise.
C10_LoadedBlocks ==
  (last.op = "load_chunk" /\ last.out = "Ok" /\ IsChunkLoaded(chunks, last.args[1], last.args[2])) =>
    LET cx == last.args[1]
        cz == last.args[2]
        mask == last.args[4]
    IN \A s \in Slots :
         BitOf(mask, s) = 1 =>
           LET g == SlotGroup(mask, last.args[5], s)
           IN \A i \in 0 .. (SectionCells - 1) :
                LET val == PackedValue(g, i)
                IN (g.bit_size <= 8 /\ val >= Len(g.palette)) \/
                   WorldGetBlock(chunks, (cx * 16) + (i % 16), (s * 16) + (i \div 256),
                                 (cz * 16) + ((i \div 16) % 16))
                     = ByVanillaId(IF g.bit_size <= 8 THEN g.palette[val + 1] ELSE val)

\* C10: width 4, palette [air, stone], one cell set to 1, loaded over a
\* Section that held other blocks: that cell reads stone, the others air
C10_Witness ==
  /\ last.op = "load_chunk" /\ last.out = "Ok"
  /\ last.args[3] = FALSE /\ last.args[4] = 1 /\ last.args[5] = <<GroupStone>>
  /\ HasSection(chunks, 0, 0, 0)
  /\ Len(SectionAt(chunks, 0, 0, 0).block_map) > 2
  /\ WorldGetBlock(chunks, 3, 1, 2) = Stone
  /\ \A i \in (0 .. (SectionCells - 1)) \ {291} :
       WorldGetBlock(chunks, i % 16, i \div 256, (i \div 16) % 16) = Air

(***************************************************************************)
(* Properties of the flags (SpecFlags, SpecConsumer)                       *)
(***************************************************************************)
\* the positions (x, slot, z) of the Sections of ch, and the Section at one
SectionPositions(ch) ==
  { <<cpos[1], i, cpos[2]>> : cpos \in DOMAIN ch, i \in Slots } \cap
  { pos \in (Int \X Slots \X Int) :
      <<pos[1], pos[3]>> \in DOMAIN ch /\ pos[2] \in DOMAIN ch[<<pos[1], pos[3]>>].sections }

SectionOf(ch, pos) == ch[<<pos[1], pos[3]>>].sections[pos[2]]

\* the entries of a get_dirty_chunk_sections result for position pos
EntriesFor(r, pos) == { k \in 1 .. Len(r) : <<r[k][1], r[k][2], r[k][3]>> = pos }

\* C4: get_dirty_chunk_sections returns exactly one entry for each existing
\* Section that is dirty and not building and none for any other; an entry
\* carries the column position and slot index the Section is stored under,
\* and the Section's key.
C4_DirtyCollection ==
  LET r == GetDirtyChunkSections(chunks)
  IN /\ \A pos \in SectionPositions(chunks) :
          Cardinality(EntriesFor(r, pos)) =
            IF SectionOf(chunks, pos).dirty /\ ~SectionOf(chunks, pos).building THEN 1 ELSE 0
     /\ \A k \in 1 .. Len(r) :
          /\ <<r[k][1], r[k][2], r[k][3]>> \in SectionPositions(chunks)
          /\ r[k][4] = SectionOf(chunks, <<r[k][1], r[k][2], r[k][3]>>).key

\* C4: of two dirty Sections the one that is building is left out
C4_Witness ==
  /\ {<<0, 0, 0>>, <<0, 1, 0>>} \subseteq SectionPositions(chunks)
  /\ SectionOf(chunks, <<0, 0, 0>>).dirty /\ SectionOf(chunks, <<0, 0, 0>>).building
  /\ SectionOf(chunks, <<0, 1, 0>>).dirty /\ ~SectionOf(chunks, <<0, 1, 0>>).building
  /\ Len(GetDirtyChunkSections(chunks)) = 1

\* the step is a call that removes or replaces the Section at pos
Replaces(pos) ==
  \/ last'.op = "unload_chunk" /\ last'.args = <<pos[1], pos[3]>>
  \/ /\ last'.op = "load_chunk" /\ last'.args[3]
     /\ <<last'.args[1], last'.args[2]>> = <<pos[1], pos[3]>>

\* the step is a set_block on a cell of the Section at pos
SetBlockHits(pos) ==
  /\ last'.op = "set_block"
  /\ <<last'.args[1] \div 16, last'.args[2] \div 16, last'.args[3] \div 16>> = pos

\* ... that changes the cell's value
SetBlockEdits(pos) ==
  /\ SetBlockHits(pos)
  /\ WorldGetBlock(chunks, last'.args[1], last'.args[2], last'.args[3]) # last'.args[4]

Listed(ch, pos) == EntriesFor(GetDirtyChunkSections(ch), pos) # {}

\* the steps of the building protocol for the Section at pos, with edits
\* either every set_block on the Section or those that change a cell's value
BuildingSteps(pos, everySetBlock) ==
  LET before == SectionOf(chunks, pos)
  IN /\ (last'.op = "set_building_flag" /\ last'.args = pos) =>
          /\ SectionOf(chunks', pos).building
          /\ ~SectionOf(chunks', pos).dirty
     /\ (before.building /\ (IF everySetBlock THEN SetBlockHits(pos) ELSE SetBlockEdits(pos))) =>
          /\ SectionOf(chunks', pos).dirty
          /\ SectionOf(chunks', pos).building
     /\ (before.building /\ ~Replaces(pos)
           /\ ~(last'.op = "reset_building_flag" /\ last'.args = pos)) =>
          /\ SectionOf(chunks', pos).building
          /\ ~Listed(chunks', pos)
     /\ (before.building /\ before.dirty /\ ~Replaces(pos)
           /\ ~(last'.op = "set_building_flag" /\ last'.args = pos)) =>
          SectionOf(chunks', pos).dirty
     /\ (before.building /\ before.dirty
           /\ last'.op = "reset_building_flag" /\ last'.args = pos) =>
          /\ ~SectionOf(chunks', pos).building
          /\ Listed(chunks', pos)

\* C2 as stated: after set_building_flag dirty is false; any later set_block
\* on the Section sets dirty while building stays set; the Section is not
\* listed by get_dirty_chunk_sections until reset_building_flag, and is
\* listed right after it when it was made dirty during the build.
C2_AnySetBlock ==
  [][ \A pos \in SectionPositions(chunks) : BuildingSteps(pos, TRUE) ]_vars

\* C2, amended: the same, for a later set_block on the Section that changes
\* the value of its cell; a set_block that writes the value the cell already
\* holds leaves dirty as it is.
C2_EditingSetBlock ==
  [][ /\ \A pos \in SectionPositions(chunks) : BuildingSteps(pos, FALSE)
      /\ \A pos \in SectionPositions(chunks) :
           (SetBlockHits(pos) /\ ~SetBlockEdits(pos)) =>
             SectionOf(chunks', pos) = SectionOf(chunks, pos) ]_vars

\* C2: reset_building_flag has ended the build of a Section that was edited
\* meanwhile, and the Section is listed again
C2_Witness ==
  /\ last.op = "reset_building_flag" /\ last.args = <<0, 0, 0>>
  /\ <<0, 0, 0>> \in SectionPositions(chunks)
  /\ SectionOf(chunks, <<0, 0, 0>>).dirty /\ ~SectionOf(chunks, <<0, 0, 0>>).building
  /\ Listed(chunks, <<0, 0, 0>>)
  /\ WorldGetBlock(chunks, 0, 0, 0) = Dirt
  /\ nops = 4

\* C3: the consumer never has more than one build in flight for the same
\* column position and slot.
C3_OneBuildPerSection == \A pos \in DOMAIN builds : builds[pos] <= 1

(***************************************************************************)
(* Properties of C11 to C20                                                *)
(***************************************************************************)
\* C11: from a new Section (width 4), 17 distinct non-empty blocks written
\* into 17 distinct cells double the width exactly once, to 8 (the width is
\* 4 up to the 15th write and 8 from the 16th on), and afterwards each
\* written cell reads the block written to it.
C11_SeventeenWrites ==
  /\ Cardinality(FillRead(sec)) = nops
  /\ sec.blocks.bit_size = IF nops >= 16 THEN 8 ELSE 4
  /\ nops = 17 => Len(sec.block_map) = 18

\* C11: the 17 writes are made, starting at write 10
C11_Witness ==
  /\ nops = 17
  /\ sec.blocks.bit_size = 8
  /\ FillRead(sec) = FillPairs \ {9}
  /\ sec.block_map[2][1] = FillBlock(10)

\* the positions read
ReadPositions ==
  { <<0, 0, 0>>, <<3, 17, 2>>, <<5, 40, 5>>, <<0, -1, 0>>, <<0, 256, 0>>, <<3, -17, 2>>,
    <<-1, 0, 0>>, <<-16, 5, 0>>, <<0, 255, 16>>, <<16, 256, 0>>, <<16, 0, 0>> }

\* the cell at p was written with the missing sentinel
StoresMissing(ch, p) ==
  /\ HasSection(ch, p[1], p[2], p[3])
  /\ SectionGetBlock(SectionAt(ch, p[1], p[2], p[3]), p[1] % 16, p[2] % 16, p[3] % 16) = Missing

\* C12 as stated: get_block returns the missing sentinel only when the
\* column is absent or the cell stores it; for every y, when the column
\* exists and holds no Section for y, it returns the empty sentinel.
C12_MissingOnlyIfAbsent ==
  \A p \in ReadPositions :
    /\ WorldGetBlock(chunks, p[1], p[2], p[3]) = Missing =>
         (~IsChunkLoaded(chunks, p[1] \div 16, p[3] \div 16) \/ StoresMissing(chunks, p))
    /\ (IsChunkLoaded(chunks, p[1] \div 16, p[3] \div 16) /\ ~HasSection(chunks, p[1], p[2], p[3])) =>
         WorldGetBlock(chunks, p[1], p[2], p[3]) = Air

\* C12, amended: get_block returns the missing sentinel exactly when the
\* column is absent, or y is outside [0, 256), or the cell stores it; for y
\* in [0, 256), when the column exists and the slot is absent, it returns
\* the empty sentinel.
C12_MissingIfAbsentOrOutside ==
  \A p \in ReadPositions :
    /\ WorldGetBlock(chunks, p[1], p[2], p[3]) = Missing <=>
         \/ ~IsChunkLoaded(chunks, p[1] \div 16, p[3] \div 16)
         \/ p[2] \notin 0 .. 255
         \/ StoresMissing(chunks, p)
    /\ (IsChunkLoaded(chunks, p[1] \div 16, p[3] \div 16) /\ p[2] \in 0 .. 255
          /\ ~HasSection(chunks, p[1], p[2], p[3])) =>
         WorldGetBlock(chunks, p[1], p[2], p[3]) = Air

\* C12: column (0, 0) exists with a stored missing sentinel, an absent slot
\* and reads outside the height range, and column (-1, 0) is absent
C12_Witness ==
  /\ StoresMissing(chunks, <<0, 0, 0>>)
  /\ IsChunkLoaded(chunks, 0, 0) /\ ~HasSection(chunks, 5, 40, 5)
  /\ WorldGetBlock(chunks, 5, 40, 5) = Air
  /\ WorldGetBlock(chunks, 0, -1, 0) = Missing
  /\ HasSection(chunks, 3, 17, 2)
  /\ ~IsChunkLoaded(chunks, -1, 0)

\* the cells of Section s that hold a non-empty block
NonEmptyCells(s) == { c \in BitNonZero(s.blocks) : s.block_map[BitGet(s.blocks, c) + 1][1] # Air }

\* the Sections that the step creates: at a position that had none, or in
\* a column that the step replaces
CreatedSections ==
  { pos \in SectionPositions(chunks') : pos \notin SectionPositions(chunks) \/ Replaces(pos) }

\* C13 as stated: a Section exists only if one of its cells has been set to
\* a non-empty value: a step that creates a Section sets one.
C13_CreatedNonEmpty ==
  [][ \A pos \in CreatedSections : NonEmptyCells(SectionOf(chunks', pos)) # {} ]_vars

\* C13, amended: a Section is created only by a set_block that writes a
\* non-empty value into one of its cells, or by a load_chunk whose mask
\* selects its slot, whatever the payload holds and whether or not the
\* decoding succeeds.
C13_CreatedByWriteOrLoad ==
  [][ \A pos \in CreatedSections :
        \/ /\ SetBlockHits(pos)
           /\ last'.args[4] # Air
           /\ WorldGetBlock(chunks', last'.args[1], last'.args[2], last'.args[3]) = last'.args[4]
        \/ /\ last'.op = "load_chunk"
           /\ <<last'.args[1], last'.args[2]>> = <<pos[1], pos[3]>>
           /\ BitOf(last'.args[4], pos[2]) = 1 ]_vars

\* C13: a load that failed left a Section none of whose cells was ever set
C13_Witness ==
  /\ last.op = "load_chunk" /\ last.out = "Err"
  /\ <<0, 1, 0>> \in SectionPositions(chunks)
  /\ NonEmptyCells(SectionOf(chunks, <<0, 1, 0>>)) = {}
  /\ SectionOf(chunks, <<0, 1, 0>>).block_map = << <<Air, U32Max>> >>

\* the step is a set_building_flag call for pos
EntersBuild(pos) == last'.op = "set_building_flag" /\ last'.args = pos

C15_AnySetBlockDirties ==
  [][ \A pos \in SectionPositions(chunks') :
        SetBlockHits(pos) => SectionOf(chunks', pos).dirty ]_vars

\* C15, amended: a set_block that reaches a Section and changes the value of
\* the cell leaves the Section dirty, whatever its building flag, which it
\* keeps; a set_block that writes the value the cell holds leaves the
\* Section as it is, dirty or not.
C15_EditingSetBlockDirties ==
  [][ \A pos \in SectionPositions(chunks') :
        SetBlockHits(pos) =>
          IF SetBlockEdits(pos)
          THEN /\ SectionOf(chunks', pos).dirty
               /\ pos \in SectionPositions(chunks) =>
                    SectionOf(chunks', pos).building = SectionOf(chunks, pos).building
          ELSE /\ pos \in SectionPositions(chunks)
               /\ SectionOf(chunks', pos) = SectionOf(chunks, pos) ]_vars

\* C15: a set_block has reached a building Section and left it clean
C15_Witness ==
  /\ last.op = "set_block" /\ last.args = <<0, 0, 0, Dirt>>
  /\ <<0, 0, 0>> \in SectionPositions(chunks)
  /\ SectionOf(chunks, <<0, 0, 0>>).building
  /\ ~SectionOf(chunks, <<0, 0, 0>>).dirty

\* the number of complete groups at the head of a payload
RECURSIVE FullPrefix(_)
FullPrefix(data) ==
  IF data = <<>> \/ Head(data).ends # "full" THEN 0 ELSE 1 + FullPrefix(Tail(data))

\* the slots a mask selects, and the n-th of them (n from 1)
Selected(mask) == { i \in Slots : BitOf(mask, i) = 1 }

NthSelected(mask, n) ==
  CHOOSE i \in Selected(mask) : Cardinality({ j \in Selected(mask) : j <= i }) = n

\* the whole Section in slot i of column cpos: none, or one
SlotState(ch, cpos, i) ==
  IF cpos \in DOMAIN ch /\ i \in DOMAIN ch[cpos].sections THEN <<ch[cpos].sections[i]>> ELSE <<>>

\* byte k of 2048 light bytes of a payload, and the nibble of cell c
PayloadByte(bytes, k) == IF k \in DOMAIN bytes.data THEN bytes.data[k] ELSE bytes.fill

PayloadNibble(bytes, c) == (PayloadByte(bytes, c \div 2) \div (16 ^ (c % 2))) % 16

\* the Section s holds the blocks and the light of group g
HoldsGroup(s, g) ==
  \A c \in 0 .. (SectionCells - 1) :
    LET val == PackedValue(g, c)
        x == c % 16
        y == c \div 256
        z == (c \div 16) % 16
    IN /\ SectionGetBlock(s, x, y, z) =
            ByVanillaId(IF g.bit_size <= 8 /\ val < Len(g.palette) THEN g.palette[val + 1] ELSE val)
       /\ SectionGetBlockLight(s, x, y, z) = PayloadNibble(g.block_light, c)
       /\ SectionGetSkyLight(s, x, y, z) = PayloadNibble(g.sky_light, c)

\* the slot at which a load_chunk(.., mask, data) fails: the one selected
\* slot whose group is cut short or missing
FailSlot(mask, data) == NthSelected(mask, FullPrefix(data) + 1)

\* the state after a load_chunk that found fewer complete groups than
\* selected slots: every selected slot below the failing one holds its group
LoadedBelowFailure ==
  (last.op = "load_chunk" /\ last.out = "Err") =>
    LET cpos == <<last.args[1], last.args[2]>>
        mask == last.args[4]
        data == last.args[5]
    IN \A i \in Selected(mask) :
         i < FailSlot(mask, data) =>
           /\ i \in DOMAIN chunks[cpos].sections
           /\ HoldsGroup(chunks[cpos].sections[i],
                         data[Cardinality({ j \in Selected(mask) : j <= i })])

\* a load_chunk step on a column that exists or is created fails exactly
\* when complete groups are fewer than selected slots, and then leaves every
\* slot above the failing one as it was before the slot loop started
UntouchedAboveFailure ==
  (last'.op = "load_chunk"
     /\ (last'.args[3] \/ IsChunkLoaded(chunks, last'.args[1], last'.args[2]))) =>
    LET cpos == <<last'.args[1], last'.args[2]>>
        mask == last'.args[4]
        data == last'.args[5]
        base == IF last'.args[3] THEN MapPut(chunks, cpos, ChunkNew(cpos)) ELSE chunks
    IN IF FullPrefix(data) >= Cardinality(Selected(mask))
       THEN last'.out = "Ok"
       ELSE /\ last'.out = "Err"
            /\ \A i \in Slots :
                 i > FailSlot(mask, data) =>
                   SlotState(chunks', cpos, i) = SlotState(base, cpos, i)

\* C16: a load_chunk of a payload that ends before the groups of all
\* selected slots are read returns an error; with k the slot whose group
\* is cut short or missing, every selected slot below k holds the blocks and
\* light of its group, and every slot above k is as it was before the slot
\* loop started (in the emptied column when isNew is true), flags included.
C16_FailedLoad == []LoadedBelowFailure /\ [][UntouchedAboveFailure]_vars

\* C16: a load failed in slot 1; slot 0 holds its group and slot 2 the block
\* set before the load
C16_Witness ==
  /\ last.op = "load_chunk" /\ last.out = "Err"
  /\ last.args[3] = FALSE /\ last.args[4] = 7 /\ FullPrefix(last.args[5]) = 1
  /\ WorldGetBlock(chunks, 3, 1, 2) = Stone
  /\ <<0, 1, 0>> \in SectionPositions(chunks)
  /\ WorldGetBlock(chunks, 5, 40, 5) = Dirt
  /\ NonEmptyCells(SectionOf(chunks, <<0, 2, 0>>)) = {CellIndex(5, 8, 5)}

\* the positions face-adjacent to slot i of column (x, z)
FaceAdjacent(x, i, z) ==
  { <<x - 1, i, z>>, <<x + 1, i, z>>, <<x, i, z - 1>>, <<x, i, z + 1>>,
    <<x, i - 1, z>>, <<x, i + 1, z>> }

\* C17: after a load_chunk(x, z, isNew, mask, payload) that has processed
\* its slots, the Section of every selected slot exists and is dirty, every
\* existing Section face-adjacent to a selected slot is dirty, the dirty
\* flag of every other Section is as before, and so is the building flag of
\* every Section of a column that is not replaced.
C17_LoadFlagsDirty ==
  [][ (last'.op = "load_chunk" /\ last'.out = "Ok"
         /\ (last'.args[3] \/ IsChunkLoaded(chunks, last'.args[1], last'.args[2]))) =>
        LET x == last'.args[1]
            z == last'.args[2]
            loaded == { <<x, i, z>> : i \in Selected(last'.args[4]) }
            flagged == loaded \cup UNION { FaceAdjacent(p[1], p[2], p[3]) : p \in loaded }
        IN /\ loaded \subseteq SectionPositions(chunks')
           /\ \A pos \in SectionPositions(chunks') \cap flagged : SectionOf(chunks', pos).dirty
           /\ \A pos \in (SectionPositions(chunks') \cap SectionPositions(chunks)) \ flagged :
                SectionOf(chunks', pos).dirty = SectionOf(chunks, pos).dirty
           /\ \A pos \in SectionPositions(chunks') \cap SectionPositions(chunks) :
                ~Replaces(pos) => SectionOf(chunks', pos).building = SectionOf(chunks, pos).building
           /\ \A pos \in SectionPositions(chunks') \ SectionPositions(chunks) : pos \in loaded ]_vars

\* C17: slot 1 was loaded as the third call; the Section below it, which
\* is building, was flagged dirty, and it kept its building flag
C17_Witness ==
  /\ last.op = "load_chunk" /\ last.out = "Ok"
  /\ last.args[3] = FALSE /\ last.args[4] = 2
  /\ nops = 3
  /\ {<<0, 0, 0>>, <<0, 1, 0>>} \subseteq SectionPositions(chunks)
  /\ SectionOf(chunks, <<0, 0, 0>>).building /\ SectionOf(chunks, <<0, 0, 0>>).dirty
  /\ SectionOf(chunks, <<0, 1, 0>>).dirty

\* the call just made is a World::set_block whose y is outside [0, 256)
OutOfRangeSet == last'.op = "set_block" /\ last'.args[2] \notin 0..255

\* C18: World.set_block(x, y, z, v) with y outside [0, 256) leaves the whole
\* World unchanged: the set of loaded columns and the result of every
\* get_block are the same after the call as before it.
C18_OutOfRangeNoOp ==
  [][ OutOfRangeSet =>
        /\ DOMAIN chunks' = DOMAIN chunks
        /\ \A p \in ReadPositions :
             WorldGetBlock(chunks', p[1], p[2], p[3]) = WorldGetBlock(chunks, p[1], p[2], p[3])
        /\ chunks' = chunks ]_vars

\* What the code does keep: an out-of-range set_block changes no column
\* that exists and creates at most the column of (x, z), with no Section.
C18_OutOfRangeKeepsColumns ==
  [][ OutOfRangeSet =>
        LET cpos == <<last'.args[1] \div 16, last'.args[3] \div 16>>
        IN /\ \A c \in DOMAIN chunks : c \in DOMAIN chunks' /\ chunks'[c] = chunks[c]
           /\ DOMAIN chunks' = DOMAIN chunks \cup {cpos}
           /\ cpos \notin DOMAIN chunks => DOMAIN chunks'[cpos].sections = {} ]_vars

\* the call just made is set_building_flag or reset_building_flag
FlagCall == last'.op \in {"set_building_flag", "reset_building_flag"}

\* the target of the flag call did not exist when it was made: the column
\* is absent, the slot index is outside [0, 16), or the slot holds no Section
TargetAbsent ==
  LET pos == last'.args
  IN \/ <<pos[1], pos[3]>> \notin DOMAIN chunks
     \/ pos[2] \notin 0..15
     \/ pos \notin SectionPositions(chunks)

\* C19: set_building_flag(column, slot) and reset_building_flag(column,
\* slot) do not fail and leave the World unchanged whenever the target does
\* not exist: the column is absent, the slot of an existing column holds no
\* Section, or the slot index is outside [0, 16).
C19_AbsentTargetNoOp ==
  [][ (FlagCall /\ TargetAbsent) => (last'.out = "ok" /\ chunks' = chunks) ]_vars

\* What the code does keep: the World is never changed by a flag call on an
\* absent target, and the call returns unless the column exists and the
\* slot index is outside [0, 16).
C19_AbsentTargetKeepsWorld ==
  [][ (FlagCall /\ TargetAbsent) =>
        /\ chunks' = chunks
        /\ last'.out = "panic" <=>
             (<<last'.args[1], last'.args[3]>> \in DOMAIN chunks /\ last'.args[2] \notin 0..15) ]_vars

\* the cells of the Section at pos
CellsOfSection(pos) ==
  { <<16 * pos[1] + i, 16 * pos[2] + j, 16 * pos[3] + k>> : i \in 0..15, j \in 0..15, k \in 0..15 }

\* the cells read around a set_block at p: the whole Section of p and
\* cells of other Sections, other columns and other heights
CellsAround(p) ==
  (IF p[2] \in 0..255 THEN CellsOfSection(<<p[1] \div 16, p[2] \div 16, p[3] \div 16>>) ELSE {})
    \cup ReadPositions \cup { <<16, 0, 0>>, <<17, 3, 1>>, <<0, 17, 0>> }

\* get_block(q) returns after the call what it returned before it
SameRead(q) == WorldGetBlock(chunks', q[1], q[2], q[3]) = WorldGetBlock(chunks, q[1], q[2], q[3])

\* every Section but the one at spos exists after the call iff it existed
\* before it, with the same dirty flag
OtherDirtyKept(spos) ==
  /\ SectionPositions(chunks') \ {spos} = SectionPositions(chunks) \ {spos}
  /\ \A pos \in SectionPositions(chunks) \ {spos} :
       SectionOf(chunks', pos).dirty = SectionOf(chunks, pos).dirty

\* C20 as stated: World.set_block(p, v) changes the value read at p only;
\* get_block(q) is the same after the call as before it for every cell
\* q # p, and the dirty flag of every other Section is unchanged.
C20_OnlyTargetChanges ==
  [][ last'.op = "set_block" =>
        LET p == <<last'.args[1], last'.args[2], last'.args[3]>>
        IN /\ \A q \in CellsAround(p) \ {p} : SameRead(q)
           /\ OtherDirtyKept(<<p[1] \div 16, p[2] \div 16, p[3] \div 16>>) ]_vars

\* C20, amended: World.set_block(p, v) leaves get_block(q) as it was for
\* every cell q # p of a column that was loaded before the call, also
\* when the call frees a palette slot, reuses one or widens the array; in
\* the column of p, when the call creates it, every read of a height in
\* [0, 256) changes from missing to empty (but for p); and the dirty flag
\* of every Section other than the one containing p is unchanged.
C20_OnlyTargetChangesWhereLoaded ==
  [][ last'.op = "set_block" =>
        LET p == <<last'.args[1], last'.args[2], last'.args[3]>>
            cpos == <<p[1] \div 16, p[3] \div 16>>
        IN /\ \A q \in CellsAround(p) \ {p} :
                IF <<q[1] \div 16, q[3] \div 16>> = cpos /\ cpos \notin DOMAIN chunks
                THEN /\ WorldGetBlock(chunks, q[1], q[2], q[3]) = Missing
                     /\ WorldGetBlock(chunks', q[1], q[2], q[3]) =
                          (IF q[2] \in 0..255 THEN Air ELSE Missing)
                ELSE SameRead(q)
           /\ OtherDirtyKept(<<p[1] \div 16, p[2] \div 16, p[3] \div 16>>) ]_vars

\* C20: the third call was a set_block that widened the array of slot 0 of
\* column (0, 0) from 4 to 8 bits for its 17th palette entry, next to the
\* Section of slot 1, which is building and not dirty
C20_Witness ==
  /\ last.op = "set_block" /\ last.args = <<15, 15, 15, ByVanillaId(16 * 299)>>
  /\ nops = 3
  /\ {<<0, 0, 0>>, <<0, 1, 0>>} \subseteq SectionPositions(chunks)
  /\ SectionOf(chunks, <<0, 0, 0>>).blocks.bit_size = 8
  /\ Len(SectionOf(chunks, <<0, 0, 0>>).block_map) = 17
  /\ WorldGetBlock(chunks, 0, 0, 0) = Stone
  /\ ~SectionOf(chunks, <<0, 1, 0>>).dirty /\ SectionOf(chunks, <<0, 1, 0>>).building

\* a set_block has just reused the palette slot an earlier set_block freed
C20_ReuseReached ==
  /\ last.op = "set_block" /\ last.args = <<15, 15, 15, ByVanillaId(16 * 299)>>
  /\ nops = 3
  /\ <<0, 0, 0>> \in SectionPositions(chunks)
  /\ SectionOf(chunks, <<0, 0, 0>>).blocks.bit_size = 4
  /\ Len(SectionOf(chunks, <<0, 0, 0>>).block_map) = 16
  /\ WorldGetBlock(chunks, 1, 0, 0) = Air

====
